---- MODULE Spec2Model ----
(***************************************************************************)
(* A model of iris.io.plugins.abf: the ABFField handle (construction, the  *)
(* lazy attribute hook, _read, to_cube) and the load_cubes generator.      *)
(*                                                                         *)
(* Python strings that the code slices or parses (paths, base names, the   *)
(* fields cut from them) are sequences of one-character strings.  Names    *)
(* the code only passes along (cube names, units, exception types) are     *)
(* plain strings.  An object is its __dict__: a function from attribute    *)
(* names to values.  A call's outcome is a record: ok = TRUE with val, or  *)
(* ok = FALSE with err, the exception's type.                              *)
(***************************************************************************)
EXTENDS Integers, Sequences, FiniteSets, TLC

VARIABLES
    entry,      \* the parts the path under test was assembled from
    disk,       \* what the file system holds at that path
    phase,      \* "start" | "constructed" | "failed": the handle's life
    field,      \* the ABFField's __dict__
    ret,        \* the outcome of the last call made on the handle
    nOps,       \* calls made on the handle since construction
    reads,      \* how many times np.fromfile was called
    firstOp,    \* the first call made on the handle, with its outcome
    probe,      \* the last grid cell indexed, with what it held
    gen,        \* the load_cubes generator's frame
    log         \* what the generator did and what its consumer received

vars == <<entry, disk, phase, field, ret, nOps, reads, firstOp, probe, gen, log>>

----------------------------------------------------------------------------
(* Program constants.                                                      *)

X_SIZE == 4320
Y_SIZE == 2160
NAME_LEN == 24
MASK_ABOVE == 100
FILL_VALUE == 255

(* Bounds of the model.                                                    *)

MaxOps == 2
ProbeSpan == 2
MaxPatterns == 2
MaxFiles == 3
MaxPulls == 3

----------------------------------------------------------------------------
(* Python built-ins and library calls the code relies on.                  *)

Return(v) == [ok |-> TRUE, val |-> v, err |-> "none"]
Raise(e) == [ok |-> FALSE, val |-> "none", err |-> e]

Max(S) == CHOOSE m \in S : \A n \in S : n <= m
Min2(a, b) == IF a < b THEN a ELSE b

\* s[a:b] for 0 <= a <= b: Python clamps both ends to the length.
Slice(s, a, b) == SubSeq(s, Min2(a, Len(s)) + 1, Min2(b, Len(s)))

\* os.path.basename: everything after the last "/".
BasenameWhole(p) == p
Basename(p) ==
    LET slashes == {i \in 1..Len(p) : p[i] = "/"}
    IN IF slashes = {} THEN p ELSE SubSeq(p, Max(slashes) + 1, Len(p))

DigitVal ==
    ("0" :> 0) @@ ("1" :> 1) @@ ("2" :> 2) @@ ("3" :> 3) @@ ("4" :> 4) @@
    ("5" :> 5) @@ ("6" :> 6) @@ ("7" :> 7) @@ ("8" :> 8) @@ ("9" :> 9)

IsDigit(c) == c \in DOMAIN DigitVal

RECURSIVE DecVal(_)
DecVal(d) ==
    IF d = <<>> THEN 0
    ELSE 10 * DecVal(SubSeq(d, 1, Len(d) - 1)) + DigitVal[d[Len(d)]]

RECURSIVE LStrip(_)
LStrip(s) == IF s # <<>> /\ s[1] = " " THEN LStrip(Tail(s)) ELSE s

RECURSIVE RStrip(_)
RStrip(s) ==
    IF s # <<>> /\ s[Len(s)] = " " THEN RStrip(SubSeq(s, 1, Len(s) - 1)) ELSE s

\* int(s), base 10: surrounding blanks, one optional sign, then digits that
\* single underscores may separate.  Anything else is a ValueError.
PyInt(s) ==
    LET t == RStrip(LStrip(s))
        signed == t # <<>> /\ t[1] \in {"+", "-"}
        body == IF signed THEN Tail(t) ELSE t
        wellformed ==
            /\ body # <<>>
            /\ IsDigit(body[1])
            /\ IsDigit(body[Len(body)])
            /\ \A i \in 1..Len(body) : IsDigit(body[i]) \/ body[i] = "_"
            /\ \A i \in 1..(Len(body) - 1) : ~(body[i] = "_" /\ body[i + 1] = "_")
        mag == DecVal(SelectSeq(body, IsDigit))
    IN IF wellformed
       THEN Return(IF signed /\ t[1] = "-" THEN 0 - mag ELSE mag)
       ELSE Raise("ValueError")

UpperToLower ==
    ("A" :> "a") @@ ("B" :> "b") @@ ("F" :> "f") @@ ("L" :> "l") @@
    ("X" :> "x") @@ ("M" :> "m") @@ ("R" :> "r")

\* str.lower over the letters the model's names use.
Lower(s) ==
    [i \in 1..Len(s) |-> IF s[i] \in DOMAIN UpperToLower THEN UpperToLower[s[i]] ELSE s[i]]

month_numbers ==
    (<<"j", "a", "n">> :> 1) @@ (<<"f", "e", "b">> :> 2) @@
    (<<"m", "a", "r">> :> 3) @@ (<<"a", "p", "r">> :> 4) @@
    (<<"m", "a", "y">> :> 5) @@ (<<"j", "u", "n">> :> 6) @@
    (<<"j", "u", "l">> :> 7) @@ (<<"a", "u", "g">> :> 8) @@
    (<<"s", "e", "p">> :> 9) @@ (<<"o", "c", "t">> :> 10) @@
    (<<"n", "o", "v">> :> 11) @@ (<<"d", "e", "c">> :> 12)

\* calendar.isleap / datetime._is_leap
IsLeap(year) == year % 4 = 0 /\ (year % 100 # 0 \/ year % 400 = 0)

MDays == <<31, 28, 31, 30, 31, 30, 31, 31, 30, 31, 30, 31>>

\* calendar.monthrange(year, month)[1]: the number of days of the month.
MonthRange(year, month) ==
    IF month \notin 1..12 THEN Raise("IllegalMonthError")
    ELSE Return(MDays[month] + (IF month = 2 /\ IsLeap(year) THEN 1 ELSE 0))

\* datetime.date(year, month, day)
Date(year, month, day) ==
    IF year \notin 1..9999 \/ month \notin 1..12 THEN Raise("ValueError")
    ELSE IF day \notin 1..MonthRange(year, month).val THEN Raise("ValueError")
    ELSE Return([year |-> year, month |-> month, day |-> day])

RECURSIVE DaysBeforeMonth(_, _)
DaysBeforeMonth(year, month) ==
    IF month = 1 THEN 0
    ELSE DaysBeforeMonth(year, month - 1) + MonthRange(year, month - 1).val

\* datetime.date.toordinal: 0001-01-01 is day 1.
ToOrdinal(d) ==
    LET y == d.year - 1
    IN y * 365 + (y \div 4) - (y \div 100) + (y \div 400)
       + DaysBeforeMonth(d.year, d.month) + d.day

----------------------------------------------------------------------------
(* The file system.  A file is missing, or holds `size` bytes, byte k being *)
(* (k + off) % 256: off = 0 is numpy.arange(...) cast to uint8.             *)

FileByte(d, k) == (k + d.off) % 256

\* A numpy array is a strided view of a buffer: element [i, j] is the
\* buffer's item offset + i * strides[1] + j * strides[2].

\* np.fromfile(path, dtype=">u1"): a one-dimensional array of the file's bytes.
FromFile(d) ==
    IF ~d.exists THEN Raise("FileNotFoundError")
    ELSE Return([shape |-> <<d.size>>, strides |-> <<1>>, offset |-> 0, buf |-> d])

\* ndarray.reshape(n, m) of a one-dimensional array, C order: the last axis
\* varies fastest.
ReshapeFortran(a, n, m) ==
    IF a.shape[1] # n * m THEN Raise("ValueError")
    ELSE Return([shape |-> <<n, m>>, strides |-> <<a.strides[1], n * a.strides[1]>>,
                 offset |-> a.offset, buf |-> a.buf])
Reshape(a, n, m) ==
    IF a.shape[1] # n * m THEN Raise("ValueError")
    ELSE Return([shape |-> <<n, m>>, strides |-> <<m * a.strides[1], a.strides[1]>>,
                 offset |-> a.offset, buf |-> a.buf])

\* ndarray.transpose() of a two-dimensional array.
Transpose(A) ==
    [A EXCEPT !.shape = <<A.shape[2], A.shape[1]>>,
              !.strides = <<A.strides[2], A.strides[1]>>]

\* A[::-1]: the first axis reversed.
FlipNot(A) == A
Flip(A) ==
    [A EXCEPT !.offset = A.offset + (A.shape[1] - 1) * A.strides[1],
              !.strides = <<0 - A.strides[1], A.strides[2]>>]

\* The buffer offset of A[i, j], and the item there.
ItemOffset(A, i, j) == A.offset + i * A.strides[1] + j * A.strides[2]
Item(A, i, j) == FileByte(A.buf, ItemOffset(A, i, j))

\* ma.masked_greater(A, limit): the items at or above mask_from are masked;
\* the default fill value of a masked array is 999999.
MaskedGreaterEqual(A, limit) ==
    [data |-> A, shape |-> A.shape, mask_from |-> limit, fill_value |-> 999999]
MaskedGreater(A, limit) ==
    [data |-> A, shape |-> A.shape, mask_from |-> limit + 1, fill_value |-> 999999]

\* Lines 102-106 of _read: the file's bytes as a (y, x) grid.
Layout(d) ==
    LET flat == FromFile(d)
        shaped == Reshape(flat.val, X_SIZE, Y_SIZE)
    IN IF ~flat.ok THEN flat
       ELSE IF ~shaped.ok THEN shaped
       ELSE Return(Flip(Transpose(shaped.val)))

\* Lines 107-111 of _read: the mask and the fill value.
Decode(d) ==
    LET laid == Layout(d)
    IN IF ~laid.ok THEN laid
       ELSE Return([MaskedGreater(laid.val, MASK_ABOVE) EXCEPT !.fill_value = FILL_VALUE])

\* data[r, c] with both the stored value and the mask bit.
CellAt(data, r, c) ==
    [value |-> Item(data.data, r, c),
     masked |-> Item(data.data, r, c) >= data.mask_from,
     offset |-> ItemOffset(data.data, r, c)]

----------------------------------------------------------------------------
(* class ABFField.  A method's outcome is [self, res, reads]: the object's  *)
(* __dict__ afterwards, what the call returned or raised, and how many      *)
(* times it called np.fromfile.                                             *)

SetAttr(self, key, v) == (key :> v) @@ self

Outcome(self, res, n) == [self |-> self, res |-> res, reads |-> n]

\* ABFField.__init__(filename); the new object is val.
ABFField_init(filename) ==
    LET basename == Basename(filename)
    IN IF Len(basename) # NAME_LEN THEN Raise("ValueError")
       ELSE Return(("_filename" :> filename))

\* ABFField._read().  Each assignment to self happens before the next
\* statement can raise, so an exception leaves the attributes set so far.
\* Lines 99-112, given the five fields already stored on self.
ReadData(s5, data) ==
    IF s5["month"] \notin DOMAIN month_numbers THEN Outcome(s5, Raise("KeyError"), 0)
    ELSE IF ~data.ok
    THEN Outcome(SetAttr(s5, "month", month_numbers[s5["month"]]), Raise(data.err), 1)
    ELSE Outcome(SetAttr(SetAttr(s5, "month", month_numbers[s5["month"]]), "data", data.val),
                 Return("None"), 1)

\* Lines 93-97, given the base name and the two parsed integers.
ReadFields(self, basename, version, year, d) ==
    IF ~version.ok THEN Outcome(self, Raise(version.err), 0)
    ELSE IF ~year.ok THEN Outcome(SetAttr(self, "version", version.val), Raise(year.err), 0)
    ELSE ReadData(("version" :> version.val) @@ ("year" :> year.val)
                  @@ ("month" :> Slice(basename, 16, 19))
                  @@ ("period" :> Slice(basename, 19, 20))
                  @@ ("format" :> Slice(basename, 21, 24)) @@ self,
                  Decode(d))

ReadNamed(self, basename, d) ==
    ReadFields(self, basename, PyInt(Slice(basename, 9, 11)), PyInt(Slice(basename, 12, 16)), d)

ABFField_read(self, d) == ReadNamed(self, Basename(self["_filename"]), d)

\* ABFField.__getattr__(key): called when normal attribute lookup fails.
LoadsOnAnyField(key) == key \in {"data", "version", "year", "month", "period", "format"}
LoadsOn(key) == key = "data"

\* Lines 85-88, after the load (if any) returned r.
Lookup(r, key) ==
    IF ~r.res.ok THEN r
    ELSE IF key \in DOMAIN r.self THEN Outcome(r.self, Return(r.self[key]), r.reads)
    ELSE Outcome(r.self, Raise("AttributeError"), r.reads)

ABFField_getattr(self, key, d) ==
    Lookup(IF LoadsOn(key) /\ "data" \notin DOMAIN self
           THEN ABFField_read(self, d)
           ELSE Outcome(self, Return("None"), 0),
           key)

\* self.key: the instance __dict__ first, then __getattr__.
GetAttribute(self, key, d) ==
    IF key \in DOMAIN self THEN Outcome(self, Return(self[key]), 0)
    ELSE ABFField_getattr(self, key, d)

----------------------------------------------------------------------------
(* ABFField.to_cube                                                         *)

\* iris.cube.Cube(data): a cube with nothing attached yet.
NewCube(data) ==
    [data |-> data, name |-> "unknown", units |-> "unknown",
     dim_coords |-> <<>>, aux_coords |-> <<>>, attributes |-> <<>>]

\* Lines 119-126: the cube's name, from the format tag.
CubeNameAnyTag(format) ==
    IF Lower(format) = <<"a", "b", "l">> THEN Return("leaf_area_index") ELSE Return("FAPAR")
CubeName(format) ==
    IF Lower(format) = <<"a", "b", "f">> THEN Return("FAPAR")
    ELSE IF Lower(format) = <<"a", "b", "l">> THEN Return("leaf_area_index")
    ELSE Raise("TranslationError")

\* Lines 130-149: a DimCoord of n cells of 1/12 degree starting at `low`
\* degrees, with guessed bounds.  Points are in units of 1/24 degree:
\* i * step + step / 2 + low is (2 * i + 1 + 24 * low) / 24.
GridCoord(n, low, name) ==
    [standard_name |-> name, units |-> "degrees", n |-> n,
     first24 |-> 1 + 24 * low, last24 |-> 2 * (n - 1) + 1 + 24 * low,
     coord_system |-> "GeogCS(6378137.0, 6356752.31424)", has_bounds |-> TRUE]

\* Lines 155-164: the first and the last day of the period.
PeriodDays(period, year, month) ==
    IF period = <<"a">> THEN Return(<<1, 15>>)
    ELSE IF period = <<"b">>
    THEN LET last == MonthRange(year, month)
         IN IF last.ok THEN Return(<<16, last.val>>) ELSE last
    ELSE Raise("TranslationError")

\* Lines 172-173: days since 0001-01-01.
DaysSinceFromOne(date) == ToOrdinal(date)
DaysSince(date) == ToOrdinal(date) - 1

\* Lines 166-183: the time coordinate between two dates.
TimeBetween(start, end) ==
    IF ~start.ok THEN start
    ELSE IF ~end.ok THEN end
    ELSE Return([standard_name |-> "time", units |-> "days since 0001-01-01",
                 point |-> DaysSince(start.val),
                 bounds |-> <<DaysSince(start.val), DaysSince(end.val)>>])

TimeCoord(year, month, days) ==
    IF ~days.ok THEN days
    ELSE TimeBetween(Date(year, month, days.val[1]), Date(year, month, days.val[2]))

\* Lines 119-189, given the cube made from the grid, its name and its time
\* coordinate; the name is looked at first.
Assemble(cube, name, time) ==
    IF ~name.ok THEN name
    ELSE IF ~time.ok THEN time
    ELSE Return([cube EXCEPT
            !.name = name.val,
            !.units = "%",
            !.dim_coords = <<[coord |-> GridCoord(X_SIZE, 0 - 180, "longitude"), dim |-> 1],
                             [coord |-> GridCoord(Y_SIZE, 0 - 90, "latitude"), dim |-> 0]>>,
            !.aux_coords = <<time.val>>,
            !.attributes = ("source" :> "Boston University")])

\* to_cube after self.data returned a.
BuildCube(a) ==
    IF ~a.res.ok THEN a
    ELSE IF {"format", "period", "year", "month"} \ DOMAIN a.self # {}
    THEN Outcome(a.self, Raise("AttributeError"), a.reads)
    ELSE Outcome(a.self,
                 Assemble(NewCube(a.res.val), CubeName(a.self["format"]),
                          TimeCoord(a.self["year"], a.self["month"],
                                    PeriodDays(a.self["period"], a.self["year"], a.self["month"]))),
                 a.reads)

ABFField_to_cube(self, d) == BuildCube(GetAttribute(self, "data", d))

----------------------------------------------------------------------------
(* Inputs.  A path is assembled from a directory part, which is empty or    *)
(* ends in "/", and the parts of a base name, which hold no "/": the base   *)
(* name of the assembled path is the parts joined, whatever os.path does.   *)

BaseOf(e) == e.prefix \o e.ver \o e.sep1 \o e.year \o e.mon \o e.per \o e.sep2 \o e.fmt
PathOf(e) == e.dir \o BaseOf(e)

Entry(dir, prefix, ver, year, mon, per, fmt) ==
    [dir |-> dir, prefix |-> prefix, ver |-> ver, sep1 |-> <<".">>, year |-> year,
     mon |-> mon, per |-> per, sep2 |-> <<".">>, fmt |-> fmt]

\* The parts sit at the offsets _read slices: [9,11) [12,16) [16,19) [19,20) [21,24).
Standard(e) ==
    /\ Len(e.prefix) = 9 /\ Len(e.ver) = 2 /\ Len(e.sep1) = 1 /\ Len(e.year) = 4
    /\ Len(e.mon) = 3 /\ Len(e.per) = 1 /\ Len(e.sep2) = 1 /\ Len(e.fmt) = 3

Prefix9 == <<"A", "V", "H", "R", "R", "B", "U", "V", "I">>
Prefix8 == <<"A", "V", "H", "R", "R", "B", "U", "V">>
Prefix10 == <<"A", "V", "H", "R", "R", "B", "U", "V", "I", "0">>
DirNone == <<>>
DirAbs == <<"/", "p", "a", "t", "h", "/", "t", "o", "/">>
\* 14 characters: with a 10-character base name the whole path is 24 long.
DirFourteen == <<"/", "a", "b", "f", "/", "1", "9", "8", "5", "/", "f", "e", "b", "/">>

YearTokens ==
    {<<"0", "0", "0", "1">>, <<"1", "9", "8", "5">>, <<"1", "9", "8", "8">>, <<"1", "9", "0", "0">>, <<"2", "0", "0", "0">>,
     <<"2", "0", "2", "0">>, <<"9", "8", "7", "6">>, <<"9", "9", "9", "9">>, <<"0", "0", "0", "0">>, <<"1", "9", "x", "5">>,
     <<"-", "1", "2", "3">>, <<" ", "9", "8", "5">>, <<"1", "_", "9", "8">>}
MonthTokens ==
    {<<"j", "a", "n">>, <<"f", "e", "b">>, <<"m", "a", "r">>, <<"a", "p", "r">>, <<"m", "a", "y">>,
     <<"j", "u", "n">>, <<"j", "u", "l">>, <<"a", "u", "g">>, <<"s", "e", "p">>, <<"o", "c", "t">>,
     <<"n", "o", "v">>, <<"d", "e", "c">>, <<"x", "y", "z">>, <<"M", "a", "r">>}
PeriodTokens == {<<"a">>, <<"b">>, <<"c">>}
VersionTokens == {<<"0", "1">>, <<"1", "2">>, <<"x", "1">>, <<"-", "1">>, <<" ", "7">>, <<"1", "_">>}
FormatTokens == {<<"a", "b", "f">>, <<"a", "b", "l">>, <<"A", "B", "F">>, <<"A", "b", "L">>, <<"x", "y", "z">>, <<"a", "b", "x">>}

GoodEntry == Entry(DirNone, Prefix9, <<"0", "1">>, <<"1", "9", "8", "5">>, <<"f", "e", "b">>, <<"a">>, <<"a", "b", "f">>)

\* Every year, month and period under one good name ...
DateEntries ==
    {[GoodEntry EXCEPT !.year = y, !.mon = m, !.per = p] :
        y \in YearTokens, m \in MonthTokens, p \in PeriodTokens}

\* ... and, around that name, each other part varied.
NameEntries ==
    {[GoodEntry EXCEPT !.dir = d, !.prefix = x] :
        d \in {DirNone, DirAbs, DirFourteen}, x \in {Prefix8, Prefix9, Prefix10}}
    \cup {[GoodEntry EXCEPT !.dir = d, !.ver = v] : d \in {DirNone, DirAbs}, v \in VersionTokens}
    \cup {[GoodEntry EXCEPT !.fmt = f, !.per = p] :
            f \in FormatTokens, p \in {<<"a">>, <<"b">>, <<"A">>}}
    \cup {Entry(DirAbs, <<"t", "o", "o", "_", "s", "h", "o", "r", "t">>, <<>>, <<>>, <<>>, <<>>, <<>>),
          Entry(DirAbs, <<>>, <<>>, <<>>, <<>>, <<>>, <<>>),
          Entry(DirFourteen, Prefix8, <<>>, <<>>, <<>>, <<>>, <<>>)}

FieldEntries == DateEntries \cup NameEntries

WholeFile(off) == [exists |-> TRUE, size |-> X_SIZE * Y_SIZE, off |-> off]
NoFile == [exists |-> FALSE, size |-> 0, off |-> 0]
ShortFile == [exists |-> TRUE, size |-> X_SIZE * Y_SIZE - 1, off |-> 0]
LongFile == [exists |-> TRUE, size |-> X_SIZE * Y_SIZE + 1, off |-> 0]

\* off = 246 puts the bytes 101 and 100 at the grid cells [0, 0] and [1, 0].
Disks == {WholeFile(0), WholeFile(246), NoFile, ShortFile, LongFile}

----------------------------------------------------------------------------
(* State.                                                                   *)

NoRet == [op |-> "none", key |-> "none", ok |-> FALSE, err |-> "none", val |-> "none", reads |-> 0]
NoProbe ==
    [set |-> FALSE, r |-> 0, c |-> 0, value |-> 0, masked |-> FALSE,
     fill_value |-> 0, shape |-> <<0, 0>>, offset |-> 0]
NoGen == [mode |-> "none"]
NoLog == <<>>

Call(op, key, out) ==
    [op |-> op, key |-> key, ok |-> out.res.ok, err |-> out.res.err,
     val |-> out.res.val, reads |-> out.reads]

\* field = ABFField(path)
Construct ==
    /\ phase = "start"
    /\ LET r == ABFField_init(PathOf(entry))
       IN /\ phase' = IF r.ok THEN "constructed" ELSE "failed"
          /\ field' = IF r.ok THEN r.val ELSE <<>>
          /\ ret' = Call("init", "none", Outcome(<<>>, r, 0))
    /\ UNCHANGED <<entry, disk, nOps, reads, firstOp, probe, gen, log>>

Did(op, key, out) ==
    /\ field' = out.self
    /\ ret' = Call(op, key, out)
    /\ nOps' = nOps + 1
    /\ reads' = reads + out.reads
    /\ firstOp' = IF nOps = 0 THEN Call(op, key, out) ELSE firstOp
    /\ UNCHANGED <<entry, disk, phase, probe, gen, log>>

AttrKeys == {"data", "version", "year", "month", "period", "format", "_filename", "nosuch"}

\* field.<key>
Access(key) ==
    /\ phase = "constructed"
    /\ nOps < MaxOps
    /\ Did("getattr", key, GetAttribute(field, key, disk))

\* field._read()
CallRead ==
    /\ phase = "constructed"
    /\ nOps < MaxOps
    /\ Did("_read", "none", ABFField_read(field, disk))

\* field.to_cube()
CallToCube ==
    /\ phase = "constructed"
    /\ nOps < MaxOps
    /\ Did("to_cube", "none", ABFField_to_cube(field, disk))

ProbeRows == (0..ProbeSpan) \cup ((Y_SIZE - 1 - ProbeSpan)..(Y_SIZE - 1))
ProbeCols == (0..ProbeSpan) \cup ((X_SIZE - 1 - ProbeSpan)..(X_SIZE - 1))

\* field.data[r, c], once the grid is loaded
IndexCell(r, c) ==
    /\ phase = "constructed"
    /\ "data" \in DOMAIN field
    /\ LET cell == CellAt(field["data"], r, c)
       IN probe' = [set |-> TRUE, r |-> r, c |-> c, value |-> cell.value,
                    masked |-> cell.masked, fill_value |-> field["data"].fill_value,
                    shape |-> field["data"].shape, offset |-> cell.offset]
    /\ UNCHANGED <<entry, disk, phase, field, ret, nOps, reads, firstOp, gen, log>>

StartWith(entries, disks) ==
    /\ entry \in entries
    /\ disk \in disks
    /\ phase = "start"
    /\ field = <<>>
    /\ ret = NoRet
    /\ nOps = 0
    /\ reads = 0
    /\ firstOp = NoRet
    /\ probe = NoProbe
    /\ gen = NoGen
    /\ log = NoLog

\* One handle, every call a user can make on it.
FieldInit == StartWith(FieldEntries, Disks)
FieldNext ==
    \/ Construct
    \/ \E key \in AttrKeys : Access(key)
    \/ CallRead
    \/ CallToCube
FieldSpec == FieldInit /\ [][FieldNext]_vars

\* One handle of a good name, its grid loaded and indexed.
GridInit == StartWith({GoodEntry, [GoodEntry EXCEPT !.dir = DirAbs]}, Disks)
GridNext ==
    \/ Construct
    \/ Access("data")
    \/ \E r \in ProbeRows, c \in ProbeCols : IndexCell(r, c)
GridSpec == GridInit /\ [][GridNext]_vars

----------------------------------------------------------------------------
(* load_cubes.  Calling it makes a generator and runs none of its body;    *)
(* the body runs while the consumer waits in next().  The frame:           *)
(*   mode       "created" | "running" | "suspended" | "finished"           *)
(*   filespecs  the argument: [kind |-> "str" | "list", val |-> ...]       *)
(*   callback   whether one was given                                      *)
(*   specs, pi  the list the outer loop walks and how far it is            *)
(*   files, fi  the list glob.glob returned and how far the inner loop is  *)
(* The log keeps what happened: the glob calls, the files decoded, the     *)
(* run_callback calls, what the consumer received, and its next() calls.   *)

PatternA == <<"*", ".", "a", "b", "f">>
PatternB == <<"*", ".", "a", "b", "l">>
PatternCycle == <<PatternA, PatternB>>

\* The argument: one pattern as a str, or a list of 0..MaxPatterns patterns.
FilespecArgs ==
    {[kind |-> "str", val |-> PatternA]}
    \cup {[kind |-> "list", val |-> [i \in 1..n |-> PatternCycle[((i - 1) % 2) + 1]]] :
            n \in 0..MaxPatterns}

LoaderEntries ==
    {[GoodEntry EXCEPT !.dir = DirAbs],
     [GoodEntry EXCEPT !.year = <<"1", "9", "8", "8">>, !.per = <<"b">>, !.fmt = <<"A", "B", "L">>],
     [GoodEntry EXCEPT !.prefix = Prefix8],
     [GoodEntry EXCEPT !.fmt = <<"x", "y", "z">>],
     [GoodEntry EXCEPT !.per = <<"c">>]}

\* What glob.glob may return: up to n paths, no path twice.
GlobChoices(n) ==
    {fs \in UNION {[1..k -> LoaderEntries] : k \in 0..n} :
        \A i, j \in 1..Len(fs) : i # j => fs[i] # fs[j]}

\* Lines 209-210: a single string is a list of one.
NormaliseNot(filespecs) ==
    IF filespecs.kind = "str"
    THEN [i \in 1..Len(filespecs.val) |-> <<filespecs.val[i]>>]
    ELSE filespecs.val
Normalise(filespecs) ==
    IF filespecs.kind = "str" THEN <<filespecs.val>> ELSE filespecs.val

\* Lines 215-216: field = ABFField(filename); cube = field.to_cube()
MakeCube(made, d) ==
    IF ~made.ok THEN Outcome(<<>>, made, 0) ELSE ABFField_to_cube(made.val, d)
LoadOne(filename, d) == MakeCube(ABFField_init(filename), d)

\* What run_callback may return for a cube: None, the cube, another cube.
Edited(cube) == [cube EXCEPT !.attributes = ("edited" :> "yes") @@ cube.attributes]
CallbackKinds == {"none", "same", "other", "raise"}
CallbackResult(kind, cube) == IF kind = "other" THEN Edited(cube) ELSE cube

\* The frame after one pass of the inner loop's body.
Advance(g) == [g EXCEPT !.fi = g.fi + 1]
\* Line 224, yield: the frame is frozen until the next next().
YieldEager(g) == g
Yield(g) == [g EXCEPT !.mode = "suspended"]
\* An exception leaves the generator: nothing catches it, and it is finished.
RaiseSkip(g) == g
RaiseOut(g) == [g EXCEPT !.mode = "finished"]
\* Line 222, continue: on to the next file within the same next().
Continue(g) == g

NewFrame(filespecs, callback) ==
    [mode |-> "created", filespecs |-> filespecs, callback |-> callback,
     specs |-> <<>>, pi |-> 0, files |-> <<>>, fi |-> 0]

EmptyLog == [globs |-> <<>>, attempts |-> <<>>, calls |-> <<>>, out |-> <<>>, requests |-> 0]

LoaderLeft == <<entry, disk, phase, field, ret, nOps, reads, firstOp, probe>>

\* The consumer calls next() on a generator that can run.
Request ==
    /\ gen.mode \in {"created", "suspended"}
    /\ log.requests < MaxPulls
    /\ gen' = IF gen.mode = "created"
              THEN [gen EXCEPT !.mode = "running", !.specs = Normalise(gen.filespecs)]
              ELSE [gen EXCEPT !.mode = "running"]
    /\ log' = [log EXCEPT !.requests = log.requests + 1]
    /\ UNCHANGED LoaderLeft

\* The consumer calls next() on a finished generator: StopIteration.
RequestFinished ==
    /\ gen.mode = "finished"
    /\ log.requests < MaxPulls
    /\ log' = [log EXCEPT !.requests = log.requests + 1,
                          !.out = Append(log.out, [kind |-> "stop", err |-> "StopIteration",
                                                   cube |-> NewCube("none")])]
    /\ UNCHANGED <<gen>>
    /\ UNCHANGED LoaderLeft

\* Line 212-213: the inner loop is done; the next pattern is globbed.
NextPattern ==
    /\ gen.mode = "running"
    /\ gen.fi = Len(gen.files)
    /\ gen.pi < Len(gen.specs)
    /\ \E fs \in GlobChoices(MaxFiles - Len(log.attempts)) :
        /\ gen' = [gen EXCEPT !.pi = gen.pi + 1, !.files = fs, !.fi = 0]
        /\ log' = [log EXCEPT !.globs = Append(log.globs,
                        [pattern |-> gen.specs[gen.pi + 1], files |-> fs,
                         requests |-> log.requests, delivered |-> Len(log.out)])]
    /\ UNCHANGED LoaderLeft

\* Line 212: both loops are done; the generator returns.
Exhausted ==
    /\ gen.mode = "running"
    /\ gen.fi = Len(gen.files)
    /\ gen.pi = Len(gen.specs)
    /\ gen' = [gen EXCEPT !.mode = "finished"]
    /\ log' = [log EXCEPT !.out = Append(log.out, [kind |-> "stop", err |-> "StopIteration",
                                                   cube |-> NewCube("none")])]
    /\ UNCHANGED LoaderLeft

Attempt(e, built) ==
    [entry |-> e, ok |-> built.res.ok, err |-> built.res.err,
     cube |-> IF built.res.ok THEN built.res.val ELSE NewCube("none"),
     requests |-> log.requests, delivered |-> Len(log.out)]

Delivered(kind, err, cube) == [kind |-> kind, err |-> err, cube |-> cube]

\* Lines 215-216 raise.
FileFails ==
    /\ gen.mode = "running"
    /\ gen.fi < Len(gen.files)
    /\ LET e == gen.files[gen.fi + 1]
           built == LoadOne(PathOf(e), disk)
       IN /\ ~built.res.ok
          /\ gen' = RaiseOut(Advance(gen))
          /\ log' = [log EXCEPT
                !.attempts = Append(log.attempts, Attempt(e, built)),
                !.out = Append(log.out, Delivered("error", built.res.err, NewCube("none")))]
    /\ UNCHANGED LoaderLeft

\* Lines 215-224 with no callback: the cube is yielded.
FileYields ==
    /\ gen.mode = "running"
    /\ gen.fi < Len(gen.files)
    /\ ~gen.callback
    /\ LET e == gen.files[gen.fi + 1]
           built == LoadOne(PathOf(e), disk)
       IN /\ built.res.ok
          /\ gen' = Yield(Advance(gen))
          /\ log' = [log EXCEPT
                !.attempts = Append(log.attempts, Attempt(e, built)),
                !.out = Append(log.out, Delivered("cube", "none", built.res.val))]
    /\ UNCHANGED LoaderLeft

\* Lines 215-224 with a callback whose run_callback call ends in `kind`.
FileCallback(kind) ==
    /\ gen.mode = "running"
    /\ gen.fi < Len(gen.files)
    /\ gen.callback
    /\ LET e == gen.files[gen.fi + 1]
           built == LoadOne(PathOf(e), disk)
           result == CallbackResult(kind, built.res.val)
           called == [cube |-> built.res.val, field |-> built.self, filename |-> PathOf(e),
                      kind |-> kind, result |-> result]
       IN /\ built.res.ok
          /\ gen' = CASE kind = "none" -> Continue(Advance(gen))
                      [] kind = "raise" -> RaiseOut(Advance(gen))
                      [] OTHER -> Yield(Advance(gen))
          /\ log' = [log EXCEPT
                !.attempts = Append(log.attempts, Attempt(e, built)),
                !.calls = Append(log.calls, called),
                !.out = CASE kind = "none" -> log.out
                          [] kind = "raise" ->
                                Append(log.out, Delivered("error", "CallbackError", NewCube("none")))
                          [] OTHER -> Append(log.out, Delivered("cube", "none", result))]
    /\ UNCHANGED LoaderLeft

Init ==
    /\ entry = GoodEntry
    /\ disk \in {WholeFile(0), ShortFile}
    /\ phase = "start"
    /\ field = <<>>
    /\ ret = NoRet
    /\ nOps = 0
    /\ reads = 0
    /\ firstOp = NoRet
    /\ probe = NoProbe
    /\ \E filespecs \in FilespecArgs, callback \in BOOLEAN :
            gen = NewFrame(filespecs, callback)
    /\ log = EmptyLog

Next ==
    \/ Request
    \/ RequestFinished
    \/ NextPattern
    \/ Exhausted
    \/ FileFails
    \/ FileYields
    \/ \E kind \in CallbackKinds : FileCallback(kind)

Spec == Init /\ [][Next]_vars

----------------------------------------------------------------------------
(* What the inputs mean, written down without the code: the claims below    *)
(* compare the model's results with these.                                  *)

\* The year each token that int() accepts stands for.
YearNumber ==
    (<<"0", "0", "0", "1">> :> 1) @@
    (<<"1", "9", "8", "5">> :> 1985) @@
    (<<"1", "9", "8", "8">> :> 1988) @@
    (<<"1", "9", "0", "0">> :> 1900) @@
    (<<"2", "0", "0", "0">> :> 2000) @@
    (<<"2", "0", "2", "0">> :> 2020) @@
    (<<"9", "8", "7", "6">> :> 9876) @@
    (<<"9", "9", "9", "9">> :> 9999) @@
    (<<"0", "0", "0", "0">> :> 0) @@
    (<<"-", "1", "2", "3">> :> (0 - 123)) @@
    (<<" ", "9", "8", "5">> :> 985) @@
    (<<"1", "_", "9", "8">> :> 198)

MonthNames ==
    <<<<"j", "a", "n">>,
      <<"f", "e", "b">>,
      <<"m", "a", "r">>,
      <<"a", "p", "r">>,
      <<"m", "a", "y">>,
      <<"j", "u", "n">>,
      <<"j", "u", "l">>,
      <<"a", "u", "g">>,
      <<"s", "e", "p">>,
      <<"o", "c", "t">>,
      <<"n", "o", "v">>,
      <<"d", "e", "c">>>>

MonthIndex(token) == CHOOSE i \in 1..12 : MonthNames[i] = token

IntegerVersions == {<<"0", "1">>, <<"1", "2">>, <<"-", "1">>, <<" ", "7">>}

\* The base name is 24 long and its version, year and month fields parse.
NameParses(e) ==
    /\ Len(BaseOf(e)) = 24
    /\ Standard(e)
    /\ e.ver \in IntegerVersions
    /\ e.year \in DOMAIN YearNumber
    /\ \E i \in 1..12 : MonthNames[i] = e.mon

FileIsWhole(d) == d.exists /\ d.size = 4320 * 2160

Decodable(e, d) == NameParses(e) /\ FileIsWhole(d)

AbfTags == {<<a, b, f>> : a \in {"a", "A"}, b \in {"b", "B"}, f \in {"f", "F"}}
AblTags == {<<a, b, l>> : a \in {"a", "A"}, b \in {"b", "B"}, l \in {"l", "L"}}

\* A cube can be built from the file: the name parses, the tag and the
\* period are known, the year is one datetime.date accepts, the file is whole.
Buildable(e, d) ==
    /\ Decodable(e, d)
    /\ e.fmt \in AbfTags \cup AblTags
    /\ e.per \in {<<"a">>, <<"b">>}
    /\ YearNumber[e.year] \in 1..9999

RefLeap(y) == y % 400 = 0 \/ (y % 4 = 0 /\ y % 100 # 0)

\* Leap years among 1..n: 97 in every 400 years, the rest counted.
RefLeapCount(n) == 97 * (n \div 400) + Cardinality({k \in 1..(n % 400) : RefLeap(k)})

RefMonthLen(y, m) ==
    IF m \in {4, 6, 9, 11} THEN 30
    ELSE IF m = 2 THEN (IF RefLeap(y) THEN 29 ELSE 28)
    ELSE 31

RECURSIVE RefDaysBefore(_, _)
RefDaysBefore(y, m) == IF m = 1 THEN 0 ELSE RefDaysBefore(y, m - 1) + RefMonthLen(y, m - 1)

\* Days from 0001-01-01 to the date, counted.
RefDays(y, m, d) == 365 * (y - 1) + RefLeapCount(y - 1) + RefDaysBefore(y, m) + (d - 1)

MetaKeys == {"version", "year", "month", "period", "format"}

----------------------------------------------------------------------------
(* Claims about the field handle (FieldSpec) and its grid (GridSpec).       *)

\* C1: constructing an ABFField fails at once, with ValueError and before
\* any parsing or file access, exactly when the base name of the path is not
\* 24 characters long; with a 24-character base name it succeeds and stores
\* the path, whatever the fields in the name are, and an unparsable name or
\* an unreadable file fails only the later read.
C1_ConstructChecksLengthOnly ==
    /\ phase # "start" => ((phase = "constructed") <=> (Len(BaseOf(entry)) = 24))
    /\ phase = "failed" =>
            /\ ret.op = "init" /\ ~ret.ok /\ ret.err = "ValueError"
            /\ reads = 0 /\ DOMAIN field = {}
    /\ phase = "constructed" =>
            /\ field["_filename"] = PathOf(entry)
            /\ nOps = 0 => (ret.op = "init" /\ ret.ok /\ reads = 0 /\ DOMAIN field = {"_filename"})
            /\ (nOps > 0 /\ firstOp.op = "_read") => (firstOp.ok <=> Decodable(entry, disk))
            /\ (nOps > 0 /\ firstOp.op = "to_cube") => (firstOp.ok <=> Buildable(entry, disk))

C1_Witness ==
    /\ phase = "constructed"
    /\ entry.dir = DirAbs
    /\ entry.ver = <<"x", "1">>
    /\ firstOp.op = "_read"
    /\ ~firstOp.ok

\* C5: a cell of the decoded grid is masked exactly when its byte is above
\* 100, and the fill value of the grid is 255.
C5_MaskedAboveHundred ==
    probe.set =>
        /\ probe.value \in 0..255
        /\ probe.masked <=> probe.value > 100
        /\ probe.fill_value = 255

C5_Witness == probe.set /\ probe.value = 100 /\ ~probe.masked

\* C6: the decoded grid has 2160 rows and 4320 columns, and cell (r, c)
\* holds the byte at file offset c * 2160 + (2159 - r); with bytes
\* (offset mod 256), cell (0, 4317) is 31, cell (2159, 0) is 0 and cell
\* (0, 0) is masked.
C6_GridLayout ==
    probe.set =>
        /\ probe.shape = <<2160, 4320>>
        /\ probe.offset = probe.c * 2160 + (2159 - probe.r)
        /\ probe.value = (probe.c * 2160 + (2159 - probe.r) + disk.off) % 256
        /\ disk.off = 0 =>
            /\ (probe.r = 0 /\ probe.c = 4317) => (probe.value = 31 /\ ~probe.masked)
            /\ (probe.r = 2159 /\ probe.c = 0) => (probe.value = 0 /\ ~probe.masked)
            /\ (probe.r = 0 /\ probe.c = 0) => probe.masked

C6_Witness == probe.set /\ disk.off = 0 /\ probe.r = 0 /\ probe.c = 4317 /\ probe.value = 31

\* The cell next to the probed one, `dr` rows and `dc` columns away, holds
\* the byte that follows the probed cell's byte in the file.
NextByteAt(dr, dc) ==
    /\ probe.r + dr \in 0..(probe.shape[1] - 1)
    /\ probe.c + dc \in 0..(probe.shape[2] - 1)
    /\ ItemOffset(field["data"].data, probe.r + dr, probe.c + dc) = probe.offset + 1

\* C7 as stated: stored lines are 4320 long, and two consecutive bytes of
\* one stored line decode to cells of the same row in adjacent columns.
C7_AsStated ==
    (probe.set /\ probe.offset % 4320 # 4319) => (NextByteAt(0, 1) \/ NextByteAt(0, 0 - 1))

\* C7, amended: stored lines are 2160 long, one per column; two consecutive
\* bytes of one stored line decode to cells of the same column in adjacent
\* rows, the later byte one row up (the line runs from the last row to the
\* first).
C7_ColumnLines ==
    probe.set =>
        /\ probe.offset \div 2160 = probe.c
        /\ probe.offset % 2160 = 2159 - probe.r
        /\ probe.offset % 2160 # 2159 => NextByteAt(0 - 1, 0)
        /\ ~NextByteAt(0, 1) /\ ~NextByteAt(0, 0 - 1)

C7_Witness == probe.set /\ probe.r = 1 /\ probe.c = 4318 /\ NextByteAt(0 - 1, 0)

\* C8: for a valid year and month, to_cube's time coordinate has the start
\* day count as its point and [start, end] as its bounds: days 1 and 15 for
\* period a, day 16 and the month's last day for period b (leap years
\* counted), each as days since 0001-01-01.
C8_TimeCoordinate ==
    (ret.op = "to_cube" /\ Buildable(entry, disk)) =>
        /\ ret.ok
        /\ Len(ret.val.aux_coords) = 1
        /\ LET y == YearNumber[entry.year]
               m == MonthIndex(entry.mon)
               a == entry.per = <<"a">>
               first == IF a THEN 1 ELSE 16
               last == IF a THEN 15 ELSE RefMonthLen(y, m)
               time == ret.val.aux_coords[1]
           IN /\ time.point = RefDays(y, m, first)
              /\ time.bounds = <<RefDays(y, m, first), RefDays(y, m, last)>>
              /\ (y = 1 /\ m = 1 /\ a) => time.point = 0
              /\ (y = 2020 /\ m = 4) =>
                    time.bounds = IF a THEN <<737515, 737529>> ELSE <<737530, 737544>>
              /\ (y = 1985 /\ m = 2 /\ ~a) => time.bounds[2] - time.bounds[1] = 28 - 16
              /\ (y = 1988 /\ m = 2 /\ ~a) => time.bounds[2] - time.bounds[1] = 29 - 16

C8_Witness ==
    /\ ret.op = "to_cube" /\ ret.ok
    /\ entry.year = <<"1", "9", "8", "8">> /\ entry.mon = <<"f", "e", "b">> /\ entry.per = <<"b">>
    /\ ret.val.aux_coords[1].bounds[2] - ret.val.aux_coords[1].bounds[1] = 13

\* C10 as stated: the first access of the grid or of a metadata field,
\* whichever it is, triggers the decode and returns the decoded value.
C10_AsStated ==
    (nOps > 0 /\ firstOp.op = "getattr" /\ firstOp.key \in MetaKeys \cup {"data"}
     /\ Decodable(entry, disk))
        => (firstOp.ok /\ firstOp.reads = 1)

\* C10, amended: construction alone decodes nothing; the first access of
\* the grid (data) triggers the decode and returns the grid; a metadata
\* field accessed before the grid triggers no decode and fails with
\* AttributeError.
C10_DataAccessLoads ==
    /\ (phase = "constructed" /\ nOps = 0) => (reads = 0 /\ DOMAIN field = {"_filename"})
    /\ (nOps > 0 /\ firstOp.op = "getattr" /\ firstOp.key = "data") =>
            /\ firstOp.ok <=> Decodable(entry, disk)
            /\ firstOp.reads = IF NameParses(entry) THEN 1 ELSE 0
            /\ firstOp.ok => firstOp.val.shape = <<2160, 4320>>
    /\ (nOps > 0 /\ firstOp.op = "getattr" /\ firstOp.key \in MetaKeys) =>
            /\ ~firstOp.ok /\ firstOp.err = "AttributeError"
            /\ firstOp.reads = 0

C10_Witness ==
    /\ nOps > 0 /\ firstOp.op = "getattr" /\ firstOp.key = "data"
    /\ firstOp.ok /\ firstOp.reads = 1
    /\ "version" \in DOMAIN field

----------------------------------------------------------------------------
(* Claims about load_cubes (Spec).                                          *)

RECURSIVE Listed(_)
\* The files of the glob calls so far, in the order glob gave them.
Listed(globs) ==
    IF globs = <<>> THEN <<>>
    ELSE Listed(SubSeq(globs, 1, Len(globs) - 1)) \o globs[Len(globs)].files

IsCube(o) == o.kind = "cube"
IsBuilt(a) == a.ok
Passes(c) == c.kind \in {"same", "other"}

ExpectedName(e) == IF e.fmt \in AbfTags THEN "FAPAR" ELSE "leaf_area_index"
ExpectedPoint(e) ==
    RefDays(YearNumber[e.year], MonthIndex(e.mon), IF e.per = <<"a">> THEN 1 ELSE 16)

\* C2: the patterns are globbed in the given order (a single string as a
\* list of one), the files of each pattern are decoded in glob's order, one
\* cube per file; with no callback every cube is emitted in that order;
\* with a callback it is called once per built cube with (cube, field,
\* filename), None suppresses the emission and any other result is emitted
\* in the cube's place.
C2_EmissionOrder ==
    LET specs == IF gen.filespecs.kind = "str" THEN <<gen.filespecs.val>> ELSE gen.filespecs.val
        listed == Listed(log.globs)
        built == SelectSeq(log.attempts, IsBuilt)
        emitted == SelectSeq(log.out, IsCube)
        passed == SelectSeq(log.calls, Passes)
    IN /\ Len(log.globs) <= Len(specs)
       /\ \A i \in 1..Len(log.globs) : log.globs[i].pattern = specs[i]
       /\ Len(log.attempts) <= Len(listed)
       /\ \A i \in 1..Len(log.attempts) : log.attempts[i].entry = listed[i]
       /\ \A i \in 1..Len(built) :
            /\ built[i].cube.name = ExpectedName(built[i].entry)
            /\ built[i].cube.aux_coords[1].point = ExpectedPoint(built[i].entry)
       /\ ~gen.callback =>
            /\ log.calls = <<>>
            /\ Len(emitted) = Len(built)
            /\ \A i \in 1..Len(built) : emitted[i].cube = built[i].cube
       /\ gen.callback =>
            /\ Len(log.calls) = Len(built)
            /\ \A i \in 1..Len(built) :
                /\ log.calls[i].cube = built[i].cube
                /\ log.calls[i].filename = PathOf(built[i].entry)
                /\ log.calls[i].field["_filename"] = PathOf(built[i].entry)
            /\ Len(emitted) = Len(passed)
            /\ \A i \in 1..Len(passed) : emitted[i].cube = passed[i].result
       /\ (gen.mode = "finished" /\ \A i \in 1..Len(log.out) : log.out[i].kind # "error") =>
            /\ Len(log.globs) = Len(specs)
            /\ Len(built) = Len(listed)

C2_Witness ==
    /\ gen.callback /\ gen.mode = "finished"
    /\ Len(log.globs) = 2 /\ Len(log.globs[1].files) = 1 /\ Len(log.globs[2].files) = 1
    /\ Len(log.calls) = 2 /\ log.calls[1].kind = "none" /\ log.calls[2].kind = "other"
    /\ Len(log.out) = 2 /\ log.out[1].kind = "cube" /\ log.out[2].kind = "stop"

\* C3: when constructing or decoding the k-th file fails, the consumer has
\* received the results of the files before it, receives the error at the
\* pull during which that file was reached, and receives nothing but the end
\* of the sequence afterwards; no later file is decoded or passed to the
\* callback.
C3_FailsFast ==
    \A k \in 1..Len(log.attempts) :
        /\ log.attempts[k].ok <=> Buildable(log.attempts[k].entry, disk)
        /\ ~log.attempts[k].ok =>
            LET n == log.attempts[k].requests
            IN /\ k = Len(log.attempts)
               /\ gen.mode = "finished"
               /\ Len(log.calls) = (IF gen.callback THEN k - 1 ELSE 0)
               /\ Len(log.out) >= n
               /\ log.out[n].kind = "error" /\ log.out[n].err = log.attempts[k].err
               /\ \A j \in 1..(n - 1) : log.out[j].kind = "cube"
               /\ \A j \in (n + 1)..Len(log.out) : log.out[j].kind = "stop"
               /\ n - 1 = (IF gen.callback THEN Len(SelectSeq(log.calls, Passes)) ELSE k - 1)

C3_Witness ==
    /\ Len(log.attempts) = 2 /\ log.attempts[1].ok /\ ~log.attempts[2].ok
    /\ Len(log.globs) = 1 /\ Len(log.globs[1].files) = 3 /\ Len(gen.specs) = 2
    /\ Len(log.out) = 3
    /\ log.out[1].kind = "cube" /\ log.out[2].kind = "error" /\ log.out[3].kind = "stop"

\* C4: nothing is globbed or decoded before the consumer's first next(),
\* and every glob call and every file's decode happens while a next() call
\* is waiting for its result: once a result is handed over, the next file
\* is not touched until the consumer asks again.
C4_PullDriven ==
    /\ log.requests - Len(log.out) = (IF gen.mode = "running" THEN 1 ELSE 0)
    /\ gen.mode = "created" => (log.requests = 0 /\ log.attempts = <<>> /\ log.globs = <<>>)
    /\ \A i \in 1..Len(log.attempts) :
            log.attempts[i].requests = log.attempts[i].delivered + 1
    /\ \A i \in 1..Len(log.globs) :
            log.globs[i].requests = log.globs[i].delivered + 1
    /\ gen.mode = "suspended" =>
            /\ log.out[Len(log.out)].kind = "cube"
            /\ log.attempts[Len(log.attempts)].requests = log.requests
            /\ Len(log.attempts) = Len(Listed(log.globs)) - (Len(gen.files) - gen.fi)

C4_Witness ==
    /\ gen.mode = "suspended"
    /\ Len(log.out) = 1 /\ Len(log.attempts) = 1
    /\ Len(gen.files) = 3 /\ gen.fi = 1
    /\ log.requests = 1

\* C9: to_cube returns a cube only for the format tags abf (FAPAR) and abl
\* (leaf_area_index), in any letter case, and the periods a and b; for any
\* other tag or period it raises and returns nothing, and load_cubes emits
\* nothing for that file.
C9_KnownTagAndPeriodOnly ==
    \A k \in 1..Len(log.attempts) :
        LET a == log.attempts[k]
            known == a.entry.fmt \in AbfTags \cup AblTags /\ a.entry.per \in {<<"a">>, <<"b">>}
        IN /\ a.ok =>
                /\ known
                /\ a.cube.name = ExpectedName(a.entry)
                /\ a.cube.units = "%"
                /\ Len(a.cube.dim_coords) = 2
                /\ Len(a.cube.aux_coords) = 1
                /\ a.cube.attributes["source"] = "Boston University"
           /\ ~known =>
                /\ ~a.ok
                /\ Decodable(a.entry, disk) => a.err = "TranslationError"
                /\ log.out[a.requests].kind = "error"
                /\ Len(log.calls) < k

C9_Witness ==
    /\ Len(log.attempts) = 2
    /\ log.attempts[1].ok /\ log.attempts[1].entry.fmt = <<"A", "B", "L">>
    /\ ~log.attempts[2].ok /\ log.attempts[2].entry.per = <<"c">>
    /\ log.attempts[2].err = "TranslationError"

====
